---- MODULE Spec2Model ----
(***************************************************************************)
(* Schedule Creator: the MILP timetable model built by main.py / models.py *)
(* and the decoding of the solved matrix into schedule blocks.             *)
(*                                                                         *)
(* Conventions.  Python lists are sequences; a Python index i is position  *)
(* i + 1, so the row and slot indices below are the 0-based indices of the *)
(* code.  Strings that the code only compares and sorts (class names,      *)
(* group names, semester names) are naturals in the order of the strings;  *)
(* the empty group name "" is 0.  A solved variable value (a float) is an  *)
(* integer count of units of 2^-30, so 1.0 is One; on multiples of 2^-30   *)
(* the float additions of the code are exact.  The objective is kept exact *)
(* by scaling it with ObjectiveScale, a multiple of every slot count.      *)
(***************************************************************************)
EXTENDS Integers, Sequences, FiniteSets, TLC

VARIABLES
    pc,           \* position of the run: start, loaded, built, solved, stopped, printed, error
    nslots,       \* number of rows of Slots.csv = len(storage.slots)
    csv_classes,  \* rows of Classes.csv, in file order
    csv_teachers, \* teacher id -> the preference columns row[3:] of the teacher's row of Teachers.csv
    preferences,  \* teacher id -> slot_preferences (0-based index -> code or None) after load_teachers
    semesters,    \* storage.classes_by_semester after init_groups / sort_classes
    X,            \* semester -> row -> slot -> value of variables_matrix[i][j]
    Z,            \* semester -> row -> window start -> value of the z variable
    status,       \* model.status after model.solve()
    printed       \* what output.print_results emitted, per semester

vars == <<pc, nslots, csv_classes, csv_teachers, preferences, semesters, X, Z, status, printed>>

----------------------------------------------------------------------------
(* Bounds of the model *)

\* constants.NUMBER_OF_CLASS_DAYS; constants.py is not among the sources, so
\* the number of class days is a parameter of the model.
NUMBER_OF_CLASS_DAYS == 2
\* largest number of slots in Slots.csv (single-class catalogues)
MaxSlots == 6
\* largest slot_count of a class
MaxSlotCount == 3
\* largest number of rows of Classes.csv (multi-class catalogues)
MaxClasses == 3
\* largest number of preference columns of a row of Teachers.csv
MaxPreferenceColumns == 1

None == -1
TeacherIds == {1, 2}
ElectiveTeacherIds == TeacherIds \cup {3}
Names == {1, 2}
GroupNames == {0, 1, 2}
SemesterNames == {1, 2}

----------------------------------------------------------------------------
(* Arithmetic helpers *)

Max(a, b) == IF a >= b THEN a ELSE b
Abs(a) == IF a >= 0 THEN a ELSE -a

RECURSIVE Factorial(_)
Factorial(k) == IF k <= 1 THEN 1 ELSE k * Factorial(k - 1)

RECURSIVE SumOver(_, _)
\* sum of f[e] over e in S (Python: x = 0; for e in S: x += f[e])
SumOver(f, S) ==
    IF S = {} THEN 0
    ELSE LET e == CHOOSE e \in S : TRUE IN f[e] + SumOver(f, S \ {e})

RECURSIVE SumSeq(_)
SumSeq(s) == IF s = <<>> THEN 0 ELSE Head(s) + SumSeq(Tail(s))

RECURSIVE FlattenSeq(_)
FlattenSeq(ss) == IF ss = <<>> THEN <<>> ELSE Head(ss) \o FlattenSeq(Tail(ss))

RECURSIVE InsertByName(_, _)
\* insert e into the name-sorted sequence s, after every element whose name is <= its name
InsertByName(e, s) ==
    IF s = <<>> THEN <<e>>
    ELSE IF Head(s).name <= e.name THEN <<Head(s)>> \o InsertByName(e, Tail(s))
    ELSE <<e>> \o s

RECURSIVE SortByName(_)
\* list.sort(key=lambda x: x.name) / sorted(..., key=lambda x: x.name): stable, ascending
SortByName(s) ==
    IF s = <<>> THEN <<>>
    ELSE InsertByName(s[Len(s)], SortByName(SubSeq(s, 1, Len(s) - 1)))

----------------------------------------------------------------------------
(* utils.py *)

\* get_slot_count_per_day_: slot_count // constants.NUMBER_OF_CLASS_DAYS
get_slot_count_per_day_(slot_count) == slot_count \div NUMBER_OF_CLASS_DAYS

\* get_slot_count_per_day: get_slot_count_per_day_(len(storage.slots))
get_slot_count_per_day == get_slot_count_per_day_(nslots)

----------------------------------------------------------------------------
(* parsing.py and the catalogue classes of models.py *)

RECURSIVE DistinctInOrder(_)
\* the distinct elements of s in the order of their first appearance
\* (the insertion order of the identifiers / groups dictionaries)
DistinctInOrder(s) ==
    IF s = <<>> THEN <<>>
    ELSE LET init == DistinctInOrder(SubSeq(s, 1, Len(s) - 1))
             last == s[Len(s)]
         IN IF \E p \in 1..Len(init) : init[p] = last THEN init ELSE Append(init, last)

\* Class_.contains_teacher: teacher.id in [x.id for x in self.teachers]
contains_teacher(class_, teacher) == \E p \in 1..Len(class_.teachers) : class_.teachers[p] = teacher

\* Group.sort_classes
Group_sort_classes(group) == [group EXCEPT !.classes = SortByName(group.classes)]

\* the groups without the common group created in advance
init_groups_NoCommonGroup(classes) ==
    LET names == DistinctInOrder([p \in 1..Len(classes) |-> classes[p].group_name])
        groups == [g \in 1..Len(names) |->
                     [id |-> g, name |-> names[g],
                      classes |-> SelectSeq(classes, LAMBDA c : c.group_name = names[g])]]
    IN <<groups[1]>> \o SortByName(SubSeq(groups, 2, Len(groups)))

\* Semester.init_groups: group 1 is the common group "" (name 0), created
\* before any class is read; the other groups follow in first-appearance
\* order and are then sorted by name.
init_groups(classes) ==
    LET names == DistinctInOrder(<<0>> \o [p \in 1..Len(classes) |-> classes[p].group_name])
        groups == [g \in 1..Len(names) |->
                     [id |-> g, name |-> names[g],
                      classes |-> SelectSeq(classes, LAMBDA c : c.group_name = names[g])]]
    IN <<groups[1]>> \o SortByName(SubSeq(groups, 2, Len(groups)))

\* Semester.sort_classes: every group sorts its classes, the semester's list
\* becomes the concatenation of the groups' lists
sort_classes(groups) ==
    LET sorted == [g \in 1..Len(groups) |-> Group_sort_classes(groups[g])]
    IN [groups |-> sorted,
        classes |-> FlattenSeq([g \in 1..Len(sorted) |-> sorted[g].classes])]

\* Semester.common_group / Semester.non_common_groups
common_group(semester) == semester.groups[1]
non_common_groups(semester) == SubSeq(semester.groups, 2, Len(semester.groups))

\* parsing.load_classes: one Semester per semester name in first-appearance
\* order, its classes in file order, then init_groups() and sort_classes()
load_classes(rows) ==
    LET classes == [p \in 1..Len(rows) |->
                      [id |-> p, name |-> rows[p].name, semester |-> rows[p].semester,
                       group_name |-> rows[p].group_name, slot_count |-> rows[p].slot_count,
                       teachers |-> rows[p].teachers]]
        names == DistinctInOrder([p \in 1..Len(rows) |-> rows[p].semester])
    IN [s \in 1..Len(names) |->
          LET own == SelectSeq(classes, LAMBDA c : c.semester = names[s])
              sorted == sort_classes(init_groups(own))
          IN [id |-> s, name |-> names[s], groups |-> sorted.groups, classes |-> sorted.classes]]

\* the block load_teachers appends for the code x of preference column i
\* (0-based): [x] * 4 + [None], [x] * 4 or [x] * 6
PreferenceBlock(i, x) ==
    IF i % 3 = 0 THEN <<x, x, x, x, None>>
    ELSE IF i % 3 = 1 THEN <<x, x, x, x>>
    ELSE <<x, x, x, x, x, x>>

RECURSIVE ExpandColumns(_)
\* slot_preferences of a row of Teachers.csv with the preference columns
\* codes, as a sequence
ExpandColumns(codes) ==
    IF codes = <<>> THEN <<>>
    ELSE ExpandColumns(SubSeq(codes, 1, Len(codes) - 1))
         \o PreferenceBlock(Len(codes) - 1, codes[Len(codes)])

\* parsing.load_teachers: teacher id -> slot_preferences, indexed from 0; its
\* length follows from the number of columns, not from the number of slots
load_teachers(rows) ==
    [t \in DOMAIN rows |->
        LET slot_preferences == ExpandColumns(rows[t])
        IN [j \in 0..(Len(slot_preferences) - 1) |-> slot_preferences[j + 1]]]

\* parsing.load_slots: is_lunch_break / is_evening of slot index i
is_lunch_break(i) == i % get_slot_count_per_day = 4
is_evening(i) == i % get_slot_count_per_day >= 9

\* parsing.load_slots evaluates i % slot_count_per_day for every row: with
\* fewer rows than class days the divisor is 0 and the load raises
\* ZeroDivisionError.
load_slots_raises == nslots >= 1 /\ get_slot_count_per_day_(nslots) = 0

----------------------------------------------------------------------------
(* constants.py is not among the sources; the coefficients follow the     *)
(* specification: "strong preference" is the most negative weight, "not   *)
(* available" the most positive, the slot penalties are positive.         *)

COEFFICIENT_PREFERENCE_NEUTRAL == 0
\* "not available" left without a weight
COEFFICIENT_PREFERENCE_NOT_AVAILABLE_Neutral == COEFFICIENT_PREFERENCE_NEUTRAL
COEFFICIENT_PREFERENCE_NOT_AVAILABLE == 20
COEFFICIENT_PREFERENCE_IF_NOT_OTHERWISE_POSSIBLE == 10
COEFFICIENT_PREFERENCE_PREFERABLY_NOT == 5
COEFFICIENT_PREFERENCE_IDEALLY_YES == -5
COEFFICIENT_PREFERENCE_STRONG_PREFERENCE == -10
COEFFICIENT_SLOT_PENALTY_FIRST_HOUR == 1
COEFFICIENT_SLOT_PENALTY_LUNCH_BREAK == 2
COEFFICIENT_SLOT_PENALTY_EVENING_HOURS == 3

\* preference codes, the indices of preference_coefficients
PreferenceCodes == 0..5

----------------------------------------------------------------------------
(* models.py: SemesterSchedule, the model of one semester.                 *)
(* x is the semester's matrix of decision values, x[i][j] \in {0, 1};      *)
(* z[i][j] is the value of the z variable of row i and window start j.     *)

Slots == 0..(nslots - 1)
Rows(semester) == 0..(Len(semester.classes) - 1)
Binary == {0, 1}

\* every variable of the model is create_binary_variable: integer, 0 <= v <= 1
create_binary_variable == Binary

\* the multiple of every slot count by which the objective is scaled
ObjectiveScale == Factorial(MaxSlotCount)

\* preference_coefficients[slot_preference]
preference_coefficients(code) ==
    CASE code = 0 -> COEFFICIENT_PREFERENCE_NEUTRAL
      [] code = 1 -> COEFFICIENT_PREFERENCE_NOT_AVAILABLE
      [] code = 2 -> COEFFICIENT_PREFERENCE_IF_NOT_OTHERWISE_POSSIBLE
      [] code = 3 -> COEFFICIENT_PREFERENCE_PREFERABLY_NOT
      [] code = 4 -> COEFFICIENT_PREFERENCE_IDEALLY_YES
      [] code = 5 -> COEFFICIENT_PREFERENCE_STRONG_PREFERENCE

\* variable * coefficient / class_slot_count, scaled by ObjectiveScale
Term(variable, coefficient, class_slot_count) ==
    variable * coefficient * (ObjectiveScale \div class_slot_count)

\* _get_objective_function_unallocated_class_slots
get_objective_function_unallocated_class_slots(x, semester) ==
    - ObjectiveScale *
        SumOver([i \in Rows(semester) |-> SumOver(x[i], Slots)], Rows(semester))

\* _get_objective_function_teachers_slot_preferences raises IndexError at
\* variables_matrix[i][j] when a teacher of a class has a preference that is
\* not None at an index j with no slot
teachers_slot_preferences_raises(semester) ==
    \E i \in Rows(semester) : \E t \in DOMAIN semester.classes[i + 1].teachers :
        LET slot_preferences == preferences[semester.classes[i + 1].teachers[t]]
        IN \E j \in DOMAIN slot_preferences : slot_preferences[j] # None /\ j \notin Slots

\* _get_objective_function_penalize_first_hour raises IndexError at
\* variables_matrix[i][j * slot_count_per_day] when the first slot of a class
\* day is no slot (a calendar without slots)
penalize_first_hour_raises(semester) ==
    /\ Rows(semester) # {}
    /\ \E j \in 0..(NUMBER_OF_CLASS_DAYS - 1) : j * get_slot_count_per_day \notin Slots

\* the part of _get_objective_function_teachers_slot_preferences of row i and
\* of the teacher at position t of the class's teacher list
teacher_slot_preferences_term(x, semester, i, t) ==
    LET class_ == semester.classes[i + 1]
        slot_preferences == preferences[class_.teachers[t]]
        defined == {j \in DOMAIN slot_preferences : slot_preferences[j] # None}
    IN SumOver([j \in defined |->
                  Term(x[i][j], preference_coefficients(slot_preferences[j]), class_.slot_count)],
               defined)

\* _get_objective_function_teachers_slot_preferences
get_objective_function_teachers_slot_preferences(x, semester) ==
    SumOver([i \in Rows(semester) |->
               LET ts == DOMAIN semester.classes[i + 1].teachers
               IN SumOver([t \in ts |-> teacher_slot_preferences_term(x, semester, i, t)], ts)],
            Rows(semester))

\* _get_objective_function_penalize_first_hour
get_objective_function_penalize_first_hour(x, semester) ==
    LET days == 0..(NUMBER_OF_CLASS_DAYS - 1)
    IN SumOver([i \in Rows(semester) |->
                  SumOver([j \in days |->
                             Term(x[i][j * get_slot_count_per_day],
                                  COEFFICIENT_SLOT_PENALTY_FIRST_HOUR,
                                  semester.classes[i + 1].slot_count)], days)],
               Rows(semester))

\* _get_objective_function_penalize_lunch_break
get_objective_function_penalize_lunch_break(x, semester) ==
    LET lunch == {j \in Slots : is_lunch_break(j)}
    IN SumOver([i \in Rows(semester) |->
                  SumOver([j \in lunch |->
                             Term(x[i][j], COEFFICIENT_SLOT_PENALTY_LUNCH_BREAK,
                                  semester.classes[i + 1].slot_count)], lunch)],
               Rows(semester))

\* _get_objective_function_penalize_evening_hours
get_objective_function_penalize_evening_hours(x, semester) ==
    LET evening == {j \in Slots : is_evening(j)}
    IN SumOver([i \in Rows(semester) |->
                  SumOver([j \in evening |->
                             Term(x[i][j], COEFFICIENT_SLOT_PENALTY_EVENING_HOURS,
                                  semester.classes[i + 1].slot_count)], evening)],
               Rows(semester))

\* the objective without the fragment of the teachers' preferences
get_objective_function_NoPreferences(x, semester) ==
      get_objective_function_unallocated_class_slots(x, semester)
    + get_objective_function_penalize_first_hour(x, semester)
    + get_objective_function_penalize_lunch_break(x, semester)
    + get_objective_function_penalize_evening_hours(x, semester)

\* SemesterSchedule.get_objective_function
get_objective_function(x, semester) ==
      get_objective_function_unallocated_class_slots(x, semester)
    + get_objective_function_teachers_slot_preferences(x, semester)
    + get_objective_function_penalize_first_hour(x, semester)
    + get_objective_function_penalize_lunch_break(x, semester)
    + get_objective_function_penalize_evening_hours(x, semester)

\* main: objective_function += semester_schedule.get_objective_function()
objective_function(xs) ==
    SumOver([s \in DOMAIN semesters |-> get_objective_function(xs[s], semesters[s])],
            DOMAIN semesters)

----------------------------------------------------------------------------
(* models.py: the constraints of one semester *)

\* the slot-count constraint as a lower bound only: x >= slot_count
match_class_slot_count_AtLeast(row, class_slot_count) ==
    SumOver(row, Slots) >= class_slot_count

\* the constraint of row i in _set_constraints_match_class_slot_count:
\* x == self.semester.classes[i].slot_count, x the sum of the row
match_class_slot_count(row, class_slot_count) ==
    SumOver(row, Slots) = class_slot_count

\* the window starts without the day-boundary test
WindowStarts_NoDaySkip(class_slot_count) == 0..(nslots - class_slot_count)

\* the window starts with the day-boundary test one start too strict
WindowStarts_SkipLastStart(class_slot_count) ==
    {j \in 0..(nslots - class_slot_count) :
        ~ (j % get_slot_count_per_day >= get_slot_count_per_day - class_slot_count)}

\* the window starts j for which _set_constraints_consecutive_slots creates a
\* z variable: range(n - class_slot_count + 1) without the starts whose
\* window would cross a day boundary
WindowStarts(class_slot_count) ==
    {j \in 0..(nslots - class_slot_count) :
        ~ (j % get_slot_count_per_day > get_slot_count_per_day - class_slot_count)}

\* x of window j: the sum of variables_matrix[i][k] for k in range(j, j + class_slot_count)
WindowSum(row, j, class_slot_count) ==
    SumOver(row, j..(j + class_slot_count - 1))

\* the upper bound without the division: z <= x
IndicatorUpperBound_NoDivision(z, x, class_slot_count) == z <= x

\* model += z <= x / class_slot_count
IndicatorUpperBound(z, x, class_slot_count) == z * class_slot_count <= x

\* the lower bound without the + 1: z >= x - class_slot_count
IndicatorLowerBound_NoPlusOne(z, x, class_slot_count) == z >= x - class_slot_count

\* model += z >= x - class_slot_count + 1
IndicatorLowerBound(z, x, class_slot_count) == z >= x - class_slot_count + 1

\* the constraints of row i in _set_constraints_consecutive_slots: the two
\* bounds of every z variable, and Z == 1
consecutive_slots(row, zrow, class_slot_count) ==
    /\ \A j \in WindowStarts(class_slot_count) :
          /\ IndicatorUpperBound(zrow[j], WindowSum(row, j, class_slot_count), class_slot_count)
          /\ IndicatorLowerBound(zrow[j], WindowSum(row, j, class_slot_count), class_slot_count)
    /\ SumOver(zrow, WindowStarts(class_slot_count)) = 1

\* With no window start, Z is still the integer 0 at "model += Z == 1",
\* which adds the Python value False to the model: LpProblem.__iadd__
\* raises TypeError.
consecutive_slots_raises(semester) ==
    \E i \in Rows(semester) : WindowStarts(semester.classes[i + 1].slot_count) = {}

\* _set_constraints_match_class_slot_count
set_constraints_match_class_slot_count(x, semester) ==
    \A i \in Rows(semester) : match_class_slot_count(x[i], semester.classes[i + 1].slot_count)

\* _set_constraints_consecutive_slots
set_constraints_consecutive_slots(x, z, semester) ==
    \A i \in Rows(semester) : consecutive_slots(x[i], z[i], semester.classes[i + 1].slot_count)

\* the offset never advanced past the common group
GroupOffset_NotAdvanced(semester, p) == Len(common_group(semester).classes)

\* offset of the non-common group at position p of non_common_groups():
\* len(common_group.classes) plus the lengths of the groups before it
GroupOffset(semester, p) ==
    Len(common_group(semester).classes)
    + SumSeq([q \in 1..(p - 1) |-> Len(non_common_groups(semester)[q].classes)])

\* common_class_variables of slot i: the rows 0 .. len(common_group.classes) - 1
common_class_variables(x, semester, i) ==
    LET js == 0..(Len(common_group(semester).classes) - 1)
    IN SumOver([j \in js |-> x[j][i]], js)

\* group_class_variables of slot i and of the group at position p:
\* the rows offset .. offset + len(group.classes) - 1
group_class_variables(x, semester, i, p) ==
    LET js == 0..(Len(non_common_groups(semester)[p].classes) - 1)
    IN SumOver([j \in js |-> x[GroupOffset(semester, p) + j][i]], js)

\* group_class_variables never reset: one constraint over all the groups
class_limits_per_slot_AllGroups(x, semester, i) ==
    LET ps == DOMAIN non_common_groups(semester)
    IN common_class_variables(x, semester, i)
       + SumOver([p \in ps |-> group_class_variables(x, semester, i, p)], ps) <= 1

\* the constraints of slot i in _set_constraints_class_limits_per_slot
class_limits_per_slot(x, semester, i) ==
    IF non_common_groups(semester) = <<>>
    THEN common_class_variables(x, semester, i) <= 1
    ELSE \A p \in DOMAIN non_common_groups(semester) :
            common_class_variables(x, semester, i) + group_class_variables(x, semester, i, p) <= 1

\* _set_constraints_class_limits_per_slot
set_constraints_class_limits_per_slot(x, semester) ==
    \A i \in Slots : class_limits_per_slot(x, semester, i)

\* SemesterSchedule.set_constraints
set_constraints(x, z, semester) ==
    /\ set_constraints_match_class_slot_count(x, semester)
    /\ set_constraints_consecutive_slots(x, z, semester)
    /\ set_constraints_class_limits_per_slot(x, semester)

----------------------------------------------------------------------------
(* main.py *)

\* x of teacher and slot i in set_global_constraints: the cells of slot i of
\* every class, of every semester, that contains the teacher
teacher_slot_sum(xs, teacher, i) ==
    SumOver([s \in DOMAIN semesters |->
               LET js == {j \in Rows(semesters[s]) :
                             contains_teacher(semesters[s].classes[j + 1], teacher)}
               IN SumOver([j \in js |-> xs[s][j][i]], js)],
            DOMAIN semesters)

\* the sum restarted for every semester: one constraint per semester
set_global_constraints_PerSemester(xs) ==
    \A teacher \in DOMAIN preferences : \A i \in Slots : \A s \in DOMAIN semesters :
        LET js == {j \in Rows(semesters[s]) : contains_teacher(semesters[s].classes[j + 1], teacher)}
        IN SumOver([j \in js |-> xs[s][j][i]], js) <= 1

\* set_global_constraints: model += x <= 1 for every teacher and slot
set_global_constraints(xs) ==
    \A teacher \in DOMAIN preferences : \A i \in Slots : teacher_slot_sum(xs, teacher, i) <= 1

\* every constraint main adds to the model
ModelConstraints(xs, zs) ==
    /\ \A s \in DOMAIN semesters : set_constraints(xs[s], zs[s], semesters[s])
    /\ set_global_constraints(xs)

\* main without the test of the status
main_stops_Never(model_status) == FALSE

\* main: "if model.status != LpStatusOptimal: print STOP; return"
main_stops(model_status) == model_status # "Optimal"

----------------------------------------------------------------------------
(* math.isclose and the schedule extractor *)

\* 1 / rel_tol of math.isclose (rel_tol defaults to 1e-09, abs_tol to 0.0)
REL_TOL_INV == 1000000000
\* varValue 1.0 in value units.  The unit is 2^-30 (about 9.3e-10): a float
\* holds every multiple of 2^-30 up to a few units of 1.0 exactly, so that
\* sum() of such values is their exact sum
One == 1073741824

\* math.isclose(a, b): a == b or abs(a - b) <= rel_tol * max(abs(a), abs(b)).
\* For integers d and m, d * 10^9 <= m is d <= m \div 10^9.
isclose(a, b) ==
    \/ a = b
    \/ Abs(a - b) <= Max(Abs(a), Abs(b)) \div REL_TOL_INV

\* is_variable_true = not math.isclose(varValue, 0)
is_variable_true(varValue) == ~ isclose(varValue, 0)

\* the start slot one too early
ClassSchedule_OffByOne(class_, end_slot_index, slot_count) ==
    [class_ |-> class_.id, start_slot |-> end_slot_index - slot_count,
     end_slot |-> end_slot_index]

\* ClassSchedule.__init__: start_slot = storage.slots[end_slot_index - slot_count + 1],
\* end_slot = storage.slots[end_slot_index]; a slot is its index
ClassSchedule(class_, end_slot_index, slot_count) ==
    [class_ |-> class_.id, start_slot |-> end_slot_index - slot_count + 1,
     end_slot |-> end_slot_index]

RECURSIVE ScanRow(_, _, _, _, _, _)
\* the inner loop of get_class_schedules from slot j on, with the loop's
\* slot_count and is_previous_variable_true; acc is the blocks appended so far
ScanRow(row, class_, j, slot_count, is_previous_variable_true, acc) ==
    IF j >= nslots THEN acc
    ELSE LET true_ == is_variable_true(row[j])
             count == IF true_ THEN slot_count + 1 ELSE slot_count
         IN IF is_previous_variable_true /\ ~ true_
            THEN ScanRow(row, class_, j + 1, 0, true_,
                         Append(acc, ClassSchedule(class_, j - 1, count)))
            ELSE IF true_ /\ j = nslots - 1
            THEN ScanRow(row, class_, j + 1, count, true_,
                         Append(acc, ClassSchedule(class_, nslots - 1, count)))
            ELSE ScanRow(row, class_, j + 1, count, true_, acc)

\* the blocks get_class_schedules appends for row i
RowSchedules(row, class_) == ScanRow(row, class_, 0, 0, FALSE, <<>>)

RECURSIVE InsertByStart(_, _)
InsertByStart(e, s) ==
    IF s = <<>> THEN <<e>>
    ELSE IF Head(s).start_slot <= e.start_slot THEN <<Head(s)>> \o InsertByStart(e, Tail(s))
    ELSE <<e>> \o s

RECURSIVE SortByStart(_)
\* class_schedules.sort(key=lambda x: x.start_slot.id): stable; slot ids grow with the index
SortByStart(s) ==
    IF s = <<>> THEN <<>>
    ELSE InsertByStart(s[Len(s)], SortByStart(SubSeq(s, 1, Len(s) - 1)))

\* SemesterSchedule.get_class_schedules
get_class_schedules(values, semester) ==
    SortByStart(FlattenSeq([p \in 1..Len(semester.classes) |->
                              RowSchedules(values[p - 1], semester.classes[p])]))

RECURSIVE SumValues(_, _, _)
\* sum(varValue for j in range(n)) from slot j on, as acc = <<whole, units>>
\* with units < One, so that no intermediate sum leaves the integers of TLC;
\* the values are multiples of 2^-30, whose float sum is exact
SumValues(row, j, acc) ==
    IF j >= nslots THEN acc
    ELSE LET units == acc[2] + (row[j] % One)
         IN SumValues(row, j + 1,
                      <<acc[1] + (row[j] \div One) + (units \div One), units % One>>)

\* output.print_variables_matrix: check_slot_count of row i,
\* sum(varValue) == class_.slot_count
check_slot_count(row, class_) == SumValues(row, 0, <<0, 0>>) = <<class_.slot_count, 0>>

\* output.print_results for one semester: the matrix as print_variables_matrix
\* marks it (a cell is marked unless math.isclose(varValue, 0)) with the
\* check mark of every row, then the lines of print_class_schedules
print_semester(values, semester) ==
    [matrix |-> [i \in Rows(semester) |-> [j \in Slots |-> ~ isclose(values[i][j], 0)]],
     check_slot_count |-> [i \in Rows(semester) |->
                             check_slot_count(values[i], semester.classes[i + 1])],
     class_schedules |-> get_class_schedules(values, semester)]

\* output.print_teachers_preferences evaluates (i + 1) % slot_count_per_day
\* for every entry of every teacher's slot_preferences: with no slot in a
\* class day the divisor is 0 and the first entry raises ZeroDivisionError
print_teachers_preferences_raises ==
    /\ get_slot_count_per_day = 0
    /\ \E t \in DOMAIN preferences : DOMAIN preferences[t] # {}

----------------------------------------------------------------------------
(* model.solve(): the solver is a black box that returns a status and, when *)
(* the status is optimal, values of all variables that satisfy every        *)
(* constraint and minimise the objective.  Each row's constraints of        *)
(* slot count and contiguity read only that row's x and z variables, so the *)
(* satisfying assignments are assembled row by row.                         *)

\* the values of row i's x and z variables that satisfy the row's constraints
RowSolutions(class_slot_count) ==
    {p \in [Slots -> create_binary_variable] \X [WindowStarts(class_slot_count) -> create_binary_variable] :
        /\ match_class_slot_count(p[1], class_slot_count)
        /\ consecutive_slots(p[1], p[2], class_slot_count)}

RECURSIVE Tuples(_, _)
\* the sequences t of length n with t[p] \in sets[p]
Tuples(sets, n) ==
    IF n = 0 THEN {<<>>}
    ELSE {Append(t, e) : t \in Tuples(sets, n - 1), e \in sets[n]}

\* the values of one semester's variables that satisfy set_constraints,
\* as [x |-> matrix, z |-> matrix]
SemesterSolutions(semester) ==
    LET m == Len(semester.classes)
        counts == {semester.classes[p].slot_count : p \in 1..m}
        solutions == [k \in counts |-> RowSolutions(k)]
        rs == [p \in 1..m |-> solutions[semester.classes[p].slot_count]]
        x(t) == [i \in Rows(semester) |-> t[i + 1][1]]
        z(t) == [i \in Rows(semester) |-> t[i + 1][2]]
    IN {[x |-> x(t), z |-> z(t)] :
          t \in {t \in Tuples(rs, m) : set_constraints_class_limits_per_slot(x(t), semester)}}

\* the values of all variables that satisfy every constraint of the model,
\* as [x |-> xs, z |-> zs]
FeasibleAssignments ==
    LET n == Len(semesters)
        ss == [s \in 1..n |-> SemesterSolutions(semesters[s])]
        xs(t) == [s \in 1..n |-> t[s].x]
        zs(t) == [s \in 1..n |-> t[s].z]
    IN {[x |-> xs(t), z |-> zs(t)] :
          t \in {t \in Tuples(ss, n) : set_global_constraints(xs(t))}}

\* the feasible assignments of least objective value
OptimalAssignments ==
    LET feasible == FeasibleAssignments
        values == {objective_function(a.x) : a \in feasible}
        least == CHOOSE v \in values : \A w \in values : v <= w
    IN {a \in feasible : objective_function(a.x) = least}

\* varValue of a variable the solver set to v
VarValue(v) == v * One

----------------------------------------------------------------------------
(* The run: DataStorage(), main() *)

\* a row of Classes.csv
ClassRow(name, semester, group_name, slot_count, teachers) ==
    [name |-> name, semester |-> semester, group_name |-> group_name,
     slot_count |-> slot_count, teachers |-> teachers]

\* the preference columns of a row of Teachers.csv: up to
\* MaxPreferenceColumns codes
PreferenceColumns ==
    UNION {[1..l -> PreferenceCodes] : l \in 0..MaxPreferenceColumns}

InitRun ==
    /\ pc = "start"
    /\ preferences = <<>>
    /\ semesters = <<>>
    /\ X = <<>>
    /\ Z = <<>>
    /\ status = "NotSolved"
    /\ printed = <<>>

\* catalogues of one class: any number of slots, any slot count, any
\* preference columns of its teacher
InitSingle ==
    /\ nslots \in 0..MaxSlots
    /\ \E k \in 1..MaxSlotCount : csv_classes = <<ClassRow(1, 1, 0, k, <<1>>)>>
    /\ \E codes \in PreferenceColumns :
          csv_teachers = [t \in TeacherIds |-> IF t = 1 THEN codes ELSE <<>>]
    /\ InitRun

\* catalogues of several one-slot classes in any semesters and groups with
\* any teacher, one slot per class day; the names are out of file order.
\* Semester names and teacher ids are labels: the first row has semester 1
\* and teacher 1.
InitMulti ==
    /\ nslots = NUMBER_OF_CLASS_DAYS
    /\ \E l \in 2..MaxClasses :
          \E attrs \in [1..l -> SemesterNames \X GroupNames \X TeacherIds] :
             /\ attrs[1][1] = 1
             /\ attrs[1][3] = 1
             /\ csv_classes = [p \in 1..l |->
                                 ClassRow(1 + (p % 2), attrs[p][1], attrs[p][2], 1, <<attrs[p][3]>>)]
    /\ csv_teachers = [t \in TeacherIds |-> <<>>]
    /\ InitRun

\* catalogues of two classes of one semester, in any groups, of any slot
\* counts, with the same teacher or two teachers, for any number of slots
InitPair ==
    /\ nslots \in 1..MaxSlots
    /\ \E g1, g2 \in GroupNames, t2 \in TeacherIds, k1, k2 \in 1..MaxSlotCount :
          csv_classes = <<ClassRow(2, 1, g1, k1, <<1>>), ClassRow(1, 1, g2, k2, <<t2>>)>>
    /\ csv_teachers = [t \in TeacherIds |-> <<>>]
    /\ InitRun

\* catalogues of two one-slot electives of semester 1, of group 1 with
\* teacher 1 and of group 2 with teacher 2, and further one-slot classes of
\* the common group of either semester with any of three teachers, one slot
\* per class day
InitElectives ==
    /\ nslots = NUMBER_OF_CLASS_DAYS
    /\ \E l \in 0..(MaxClasses - 1) :
          \E others \in [1..l -> SemesterNames \X ElectiveTeacherIds] :
             csv_classes = [p \in 1..(l + 2) |->
                              IF p = 1 THEN ClassRow(1, 1, 1, 1, <<1>>)
                              ELSE IF p = 2 THEN ClassRow(2, 1, 2, 1, <<2>>)
                              ELSE ClassRow(1 + (p % 2), others[p - 2][1], 0, 1,
                                            <<others[p - 2][2]>>)]
    /\ csv_teachers = [t \in ElectiveTeacherIds |-> <<>>]
    /\ InitRun

\* catalogues without a class: no slot or up to one slot per class day, any
\* preference columns of a teacher
InitEmpty ==
    /\ nslots \in 0..NUMBER_OF_CLASS_DAYS
    /\ csv_classes = <<>>
    /\ \E codes \in PreferenceColumns :
          csv_teachers = [t \in TeacherIds |-> IF t = 1 THEN codes ELSE <<>>]
    /\ InitRun

Init == InitSingle \/ InitPair \/ InitMulti \/ InitElectives \/ InitEmpty

\* DataStorage.__init__: load_teachers, load_classes, load_slots
LoadData ==
    /\ pc = "start"
    /\ ~ load_slots_raises
    /\ preferences' = load_teachers(csv_teachers)
    /\ semesters' = load_classes(csv_classes)
    /\ pc' = "loaded"
    /\ UNCHANGED <<nslots, csv_classes, csv_teachers, X, Z, status, printed>>

\* DataStorage.__init__ when load_slots raises
LoadFail ==
    /\ pc = "start"
    /\ load_slots_raises
    /\ pc' = "load_error"
    /\ UNCHANGED <<nslots, csv_classes, csv_teachers, preferences, semesters, X, Z, status, printed>>

RECURSIVE build_error(_)
\* the first exception of the loop of main over the semesters from position
\* s on: each semester first builds its objective, then its constraints
build_error(s) ==
    IF s > Len(semesters) THEN "none"
    ELSE IF teachers_slot_preferences_raises(semesters[s]) THEN "IndexError"
    ELSE IF penalize_first_hour_raises(semesters[s]) THEN "IndexError"
    ELSE IF consecutive_slots_raises(semesters[s]) THEN "TypeError"
    ELSE build_error(s + 1)

\* main, up to model.solve(): the variables and constraints of every
\* semester, the global constraints, the objective
BuildModel ==
    /\ pc = "loaded"
    /\ build_error(1) = "none"
    /\ X' = [s \in DOMAIN semesters |-> [i \in Rows(semesters[s]) |-> [j \in Slots |-> None]]]
    /\ Z' = [s \in DOMAIN semesters |->
               [i \in Rows(semesters[s]) |->
                  [j \in WindowStarts(semesters[s].classes[i + 1].slot_count) |-> None]]]
    /\ pc' = "built"
    /\ UNCHANGED <<nslots, csv_classes, csv_teachers, preferences, semesters, status, printed>>

\* main when set_constraints raises
BuildFail ==
    /\ pc = "loaded"
    /\ build_error(1) = "TypeError"
    /\ pc' = "build_error"
    /\ UNCHANGED <<nslots, csv_classes, csv_teachers, preferences, semesters, X, Z, status, printed>>

\* main when get_objective_function raises
ObjectiveFail ==
    /\ pc = "loaded"
    /\ build_error(1) = "IndexError"
    /\ pc' = "objective_error"
    /\ UNCHANGED <<nslots, csv_classes, csv_teachers, preferences, semesters, X, Z, status, printed>>

\* model.solve() with an optimal assignment
SolveOptimal ==
    /\ pc = "built"
    /\ \E a \in OptimalAssignments :
          /\ X' = [s \in DOMAIN semesters |->
                     [i \in Rows(semesters[s]) |-> [j \in Slots |-> VarValue(a.x[s][i][j])]]]
          /\ Z' = [s \in DOMAIN semesters |->
                     [i \in Rows(semesters[s]) |->
                        [j \in DOMAIN a.z[s][i] |-> VarValue(a.z[s][i][j])]]]
    /\ status' = "Optimal"
    /\ pc' = "solved"
    /\ UNCHANGED <<nslots, csv_classes, csv_teachers, preferences, semesters, printed>>

\* model.solve() when no assignment satisfies the constraints
SolveInfeasible ==
    /\ pc = "built"
    /\ FeasibleAssignments = {}
    /\ status' = "Infeasible"
    /\ pc' = "solved"
    /\ UNCHANGED <<nslots, csv_classes, csv_teachers, preferences, semesters, X, Z, printed>>

\* model.solve() when the solver gives up or reports another status
SolveOther ==
    /\ pc = "built"
    /\ status' \in {"NotSolved", "Unbounded", "Undefined"}
    /\ pc' = "solved"
    /\ UNCHANGED <<nslots, csv_classes, csv_teachers, preferences, semesters, X, Z, printed>>

\* main: print("STOP"); return
Stop ==
    /\ pc = "solved"
    /\ main_stops(status)
    /\ pc' = "stopped"
    /\ UNCHANGED <<nslots, csv_classes, csv_teachers, preferences, semesters, X, Z, status, printed>>

\* main: output.print_results(semester_schedules), the semesters and then
\* the teachers' preferences
PrintResults ==
    /\ pc = "solved"
    /\ ~ main_stops(status)
    /\ ~ print_teachers_preferences_raises
    /\ printed' = [s \in DOMAIN semesters |-> print_semester(X[s], semesters[s])]
    /\ pc' = "printed"
    /\ UNCHANGED <<nslots, csv_classes, csv_teachers, preferences, semesters, X, Z, status>>

\* main: output.print_results when print_teachers_preferences raises, after
\* the semesters were printed
PrintFail ==
    /\ pc = "solved"
    /\ ~ main_stops(status)
    /\ print_teachers_preferences_raises
    /\ printed' = [s \in DOMAIN semesters |-> print_semester(X[s], semesters[s])]
    /\ pc' = "print_error"
    /\ UNCHANGED <<nslots, csv_classes, csv_teachers, preferences, semesters, X, Z, status>>

Next ==
    \/ LoadData
    \/ LoadFail
    \/ BuildModel
    \/ BuildFail
    \/ ObjectiveFail
    \/ SolveOptimal
    \/ SolveInfeasible
    \/ SolveOther
    \/ Stop
    \/ PrintResults
    \/ PrintFail

Spec == Init /\ [][Next]_vars

----------------------------------------------------------------------------
(* The extractor on any solved matrix: the run starts after model.solve()  *)
(* returned optimal, with any values in the matrix of a one-semester       *)
(* catalogue that loads and whose model builds, or with the empty matrix   *)
(* list of a catalogue without a class.                                    *)

\* sample variable values: 0, 2^-30, 0.5, 1.0
SampleValues == {0, 1, One \div 2, One}

\* the input files of a catalogue of one semester that load
InitExtractClasses ==
    /\ nslots \in 1..MaxSlots
    /\ ~ load_slots_raises
    /\ \E l \in 1..2, k \in 1..MaxSlotCount :
          /\ l * nslots <= MaxSlots
          /\ WindowStarts(k) # {}
          /\ csv_classes = [p \in 1..l |-> ClassRow(1 + (p % 2), 1, 0, k, <<1>>)]
    /\ csv_teachers = [t \in TeacherIds |-> <<>>]

\* the input files of a catalogue without a class that load
InitExtractEmpty ==
    /\ nslots \in 0..NUMBER_OF_CLASS_DAYS
    /\ ~ load_slots_raises
    /\ csv_classes = <<>>
    /\ \E codes \in PreferenceColumns :
          csv_teachers = [t \in TeacherIds |-> IF t = 1 THEN codes ELSE <<>>]

InitExtract ==
    /\ InitExtractClasses \/ InitExtractEmpty
    /\ preferences = load_teachers(csv_teachers)
    /\ semesters = load_classes(csv_classes)
    /\ IF semesters = <<>> THEN X = <<>>
       ELSE X \in [{1} -> [Rows(semesters[1]) -> [Slots -> SampleValues]]]
    /\ Z = <<>>
    /\ status = "Optimal"
    /\ printed = <<>>
    /\ pc = "solved"

NextExtract == PrintResults \/ PrintFail

SpecExtract == InitExtract /\ [][NextExtract]_vars


----------------------------------------------------------------------------
(* Vocabulary of the properties *)

\* the slots a row of 0/1 values occupies
Occupied(row) == {j \in DOMAIN row : row[j] = 1}

\* the slots a row of solved values occupies
OccupiedValues(row) == {j \in DOMAIN row : row[j] # 0}

\* S is one unbroken range of exactly k consecutive slot indices
IsRunOf(S, k) == Cardinality(S) = k /\ \E a \in Slots : S = a..(a + k - 1)

\* the least element of a non-empty set of slots
First(S) == CHOOSE a \in S : \A b \in S : a <= b

\* the day of a slot, of slots_per_day slots
Day(j) == j \div get_slot_count_per_day

\* the rows of a semester as (semester, position) pairs
ClassesOf(s) == {<<s, p>> : p \in 1..Len(semesters[s].classes)}
AllClasses == UNION {ClassesOf(s) : s \in DOMAIN semesters}
ClassAt(c) == semesters[c[1]].classes[c[2]]

\* the teachers of a class
TeachersOf(class_) == {class_.teachers[t] : t \in DOMAIN class_.teachers}

\* the matrix whose column i is col and whose other cells are 0
ColumnMatrix(semester, i, col) ==
    [r \in Rows(semester) |-> [j \in Slots |-> IF j = i THEN col[r] ELSE 0]]

\* the solver returned an optimal assignment
Solved == pc \in {"solved", "printed"} /\ status = "Optimal"

----------------------------------------------------------------------------
(* C1 *)

\* every row of 0/1 values that satisfies the slot-count constraint and,
\* with some values of the z variables, the contiguity constraints of a class
\* of slot count k occupies one unbroken range of exactly k slots
RowsAreRuns(k) ==
    \A row \in [Slots -> Binary] :
        (/\ match_class_slot_count(row, k)
         /\ \E zrow \in [WindowStarts(k) -> Binary] : consecutive_slots(row, zrow, k))
        => IsRunOf(Occupied(row), k)

\* C1: in every 0/1 assignment that satisfies the slot-count and contiguity
\* constraints, every class row (1 <= slot_count <= slots_per_day) occupies
\* one unbroken range of exactly slot_count consecutive slots; so does every
\* row of the matrix the solver returns.
C1_ContiguousRun ==
    /\ pc = "built" =>
          \A c \in AllClasses :
              (1 <= ClassAt(c).slot_count /\ ClassAt(c).slot_count <= get_slot_count_per_day)
              => RowsAreRuns(ClassAt(c).slot_count)
    /\ (pc = "solved" /\ status = "Optimal") =>
          \A c \in AllClasses :
              IsRunOf(OccupiedValues(X[c[1]][c[2] - 1]), ClassAt(c).slot_count)

\* a solved timetable with a class of several slots that is not placed at slot 0
C1_Witness ==
    /\ pc = "solved" /\ status = "Optimal"
    /\ \E c \in AllClasses :
          /\ ClassAt(c).slot_count >= 2
          /\ IsRunOf(OccupiedValues(X[c[1]][c[2] - 1]), ClassAt(c).slot_count)
          /\ 0 \notin OccupiedValues(X[c[1]][c[2] - 1])

----------------------------------------------------------------------------
(* C2 *)

\* every satisfying row of a class of slot count k starts at an offset within
\* its day of at most slots_per_day - k, and ends in the day it starts in
RowsStayInDay(k) ==
    \A row \in [Slots -> Binary] :
        (/\ match_class_slot_count(row, k)
         /\ \E zrow \in [WindowStarts(k) -> Binary] : consecutive_slots(row, zrow, k))
        => LET start == First(Occupied(row))
           IN /\ start % get_slot_count_per_day <= get_slot_count_per_day - k
              /\ Day(start) = Day(start + k - 1)
              /\ \A j \in Occupied(row) : Day(j) = Day(start)

\* C2: in every assignment satisfying the per-semester constraints no class's
\* run crosses a day boundary: its start s has
\* s mod slots_per_day <= slots_per_day - slot_count, and its first and last
\* slot lie in the same day.
C2_NoDayCrossing ==
    /\ pc = "built" => \A c \in AllClasses : RowsStayInDay(ClassAt(c).slot_count)
    /\ (pc = "solved" /\ status = "Optimal") =>
          \A c \in AllClasses :
              LET occupied == OccupiedValues(X[c[1]][c[2] - 1])
              IN \A j \in occupied : Day(j) = Day(First(occupied))

\* a solved timetable with a class of several slots placed in the second day,
\* in a calendar where a window could cross from the first day into the second
C2_Witness ==
    /\ pc = "solved" /\ status = "Optimal"
    /\ \E c \in AllClasses :
          LET occupied == OccupiedValues(X[c[1]][c[2] - 1])
          IN /\ ClassAt(c).slot_count >= 2
             /\ nslots >= 2 * get_slot_count_per_day
             /\ Day(First(occupied)) = 1

----------------------------------------------------------------------------
(* C3 *)

\* the classes, of all semesters, taught by the teacher
TaughtBy(teacher) == {c \in AllClasses : teacher \in TeachersOf(ClassAt(c))}

\* the 0/1 values of slot i of every class: semester -> row -> value
Columns == Tuples([s \in DOMAIN semesters |-> [Rows(semesters[s]) -> Binary]], Len(semesters))

\* C3: in every assignment satisfying the constraints of
\* set_global_constraints, for every teacher and every slot at most one of
\* the classes of that teacher, over all semesters, occupies the slot; the
\* same holds of the matrix the solver returns.
C3_TeacherOnceASlot ==
    /\ pc = "built" =>
          \A teacher \in DOMAIN preferences : \A i \in Slots : \A col \in Columns :
              LET xs == [s \in DOMAIN semesters |-> ColumnMatrix(semesters[s], i, col[s])]
              IN set_global_constraints(xs)
                 => Cardinality({c \in TaughtBy(teacher) : col[c[1]][c[2] - 1] = 1}) <= 1
    /\ (pc = "solved" /\ status = "Optimal") =>
          \A teacher \in DOMAIN preferences : \A i \in Slots :
              Cardinality({c \in TaughtBy(teacher) : X[c[1]][c[2] - 1][i] # 0}) <= 1

\* a solved timetable in which a teacher has classes in two semesters
C3_Witness ==
    /\ pc = "solved" /\ status = "Optimal"
    /\ \E teacher \in DOMAIN preferences : \E c, d \in TaughtBy(teacher) : c[1] # d[1]

----------------------------------------------------------------------------
(* C4 *)

\* the names of the non-common groups of the semester's classes
NonCommonNames(semester) ==
    {semester.classes[p].group_name : p \in 1..Len(semester.classes)} \ {0}

\* the rows of the classes of the semester whose group name is in names
RowsOfGroups(semester, names) ==
    {r \in Rows(semester) : semester.classes[r + 1].group_name \in names}

\* at most one class of the common group and of each non-common group
\* together is in the column
ExclusiveColumn(semester, col) ==
    /\ \A g \in NonCommonNames(semester) :
          Cardinality({r \in RowsOfGroups(semester, {0, g}) : col[r] # 0}) <= 1
    /\ NonCommonNames(semester) = {} =>
          Cardinality({r \in RowsOfGroups(semester, {0}) : col[r] # 0}) <= 1

\* C4: in every assignment satisfying the group-exclusivity constraint, for
\* every slot of a semester and every non-common group g at most one class
\* among the common classes and the classes of g occupies the slot; without
\* non-common groups at most one common class occupies any slot.  The same
\* holds of the matrix the solver returns.
C4_GroupExclusivity ==
    /\ pc = "built" =>
          \A s \in DOMAIN semesters : \A i \in Slots :
              \A col \in [Rows(semesters[s]) -> Binary] :
                  class_limits_per_slot(ColumnMatrix(semesters[s], i, col), semesters[s], i)
                  => ExclusiveColumn(semesters[s], col)
    /\ (pc = "solved" /\ status = "Optimal") =>
          \A s \in DOMAIN semesters : \A i \in Slots :
              ExclusiveColumn(semesters[s], [r \in Rows(semesters[s]) |-> X[s][r][i]])

\* a solved timetable of a semester with a class in one non-common group and
\* two classes in a later one
C4_Witness ==
    /\ pc = "solved" /\ status = "Optimal"
    /\ \E s \in DOMAIN semesters :
          /\ Cardinality(RowsOfGroups(semesters[s], {1})) = 1
          /\ Cardinality(RowsOfGroups(semesters[s], {2})) = 2

----------------------------------------------------------------------------
(* C5 *)

\* g and h are different non-common groups of the semester whose classes
\* have no teacher in common
DisjointTracks(semester, g, h) ==
    /\ g \in NonCommonNames(semester)
    /\ h \in NonCommonNames(semester)
    /\ g # h
    /\ \A r1 \in RowsOfGroups(semester, {g}) : \A r2 \in RowsOfGroups(semester, {h}) :
          TeachersOf(semester.classes[r1 + 1]) \cap TeachersOf(semester.classes[r2 + 1]) = {}

\* a class of group g and a class of group h occupy the same slot
ParallelElectives(semester, x, g, h) ==
    \E r1 \in RowsOfGroups(semester, {g}) : \E r2 \in RowsOfGroups(semester, {h}) :
        \E j \in Slots : x[r1][j] # 0 /\ x[r2][j] # 0

\* the teachers of the classes of groups g and h of semester s
TrackTeachers(s, g, h) ==
    UNION {TeachersOf(semesters[s].classes[r + 1]) : r \in RowsOfGroups(semesters[s], {g, h})}

\* the teachers of groups g and h of semester s give no other class, in
\* this semester or another
TeachOnlyTracks(s, g, h) ==
    \A c \in AllClasses :
        (c[1] # s \/ ClassAt(c).group_name \notin {g, h})
        => TeachersOf(ClassAt(c)) \cap TrackTeachers(s, g, h) = {}

\* some assignment satisfying all the constraints has a class of g and a
\* class of h of semester s in the same slot
ParallelElectivesFeasible(s, g, h) ==
    \E a \in FeasibleAssignments :
        /\ ModelConstraints(a.x, a.z)
        /\ ParallelElectives(semesters[s], a.x[s], g, h)

\* C5 as stated: for every semester with two different non-common groups
\* whose classes have no teacher in common, some assignment satisfying all
\* the per-semester and global constraints has a class of one group and a
\* class of the other group in the same slot.
C5_ParallelElectivesExist ==
    pc = "built" =>
        \A s \in DOMAIN semesters : \A g, h \in NonCommonNames(semesters[s]) :
            DisjointTracks(semesters[s], g, h) => ParallelElectivesFeasible(s, g, h)

\* C5: the constraints do not forbid parallel electives: for a semester
\* with two different non-common groups whose classes have no teacher in
\* common, when some assignment satisfies all the constraints and the
\* teachers of the two groups give no class outside them, some assignment
\* satisfying all the per-semester and global constraints has a class of
\* one group and a class of the other group in the same slot.
C5_ParallelElectivesAllowed ==
    pc = "built" =>
        \A s \in DOMAIN semesters : \A g, h \in NonCommonNames(semesters[s]) :
            (/\ DisjointTracks(semesters[s], g, h)
             /\ TeachOnlyTracks(s, g, h)
             /\ FeasibleAssignments # {})
            => ParallelElectivesFeasible(s, g, h)

\* a solved timetable of two semesters in which the electives of two such
\* groups share a slot, beside a common class of their semester and a class
\* of the other semester given by the same third teacher
C5_Witness ==
    /\ pc = "solved" /\ status = "Optimal"
    /\ Len(semesters) = 2
    /\ \E s \in DOMAIN semesters : \E g, h \in NonCommonNames(semesters[s]) :
          /\ DisjointTracks(semesters[s], g, h)
          /\ TeachOnlyTracks(s, g, h)
          /\ RowsOfGroups(semesters[s], {0}) # {}
          /\ \E c, d \in AllClasses :
                /\ c[1] = s /\ d[1] # s
                /\ ClassAt(c).group_name = 0
                /\ TeachersOf(ClassAt(c)) \cap TeachersOf(ClassAt(d)) # {}
          /\ ParallelElectives(semesters[s], X[s], g, h)

----------------------------------------------------------------------------
(* C6 *)

\* the blocks of a class among the printed blocks of its semester
BlocksOf(c) == SelectSeq(printed[c[1]].class_schedules, LAMBDA b : b.class_ = ClassAt(c).id)

\* the greatest element of a non-empty set of slots
Last(S) == CHOOSE a \in S : \A b \in S : a >= b

\* C6: get_class_schedules decodes a run exactly: for a class row whose
\* non-zero cells are exactly the slots a..b (a = 0 and b = last slot
\* included) it emits exactly one block for the class, from slot a to slot b.
C6_ExactRun ==
    pc = "printed" =>
        \A c \in AllClasses :
            LET occupied == OccupiedValues(X[c[1]][c[2] - 1])
            IN (occupied # {} /\ IsRunOf(occupied, Cardinality(occupied)))
               => BlocksOf(c) = <<[class_ |-> ClassAt(c).id,
                                   start_slot |-> First(occupied),
                                   end_slot |-> Last(occupied)]>>

\* the blocks printed for a row of six slots whose non-zero cells are 3, 4, 5
C6_Witness ==
    /\ pc = "printed"
    /\ nslots = 6
    /\ OccupiedValues(X[1][0]) = {3, 4, 5}
    /\ Len(BlocksOf(<<1, 1>>)) = 1

----------------------------------------------------------------------------
(* C7 *)

\* C7: main prints schedules and matrices only after model.solve() returned
\* and only when the status is optimal; with any other status the run stops
\* having printed nothing.
C7_OutputOnlyWhenOptimal ==
    /\ printed # <<>> => (pc = "printed" /\ status = "Optimal")
    /\ pc = "printed" => status = "Optimal"
    /\ pc = "stopped" => (status # "Optimal" /\ printed = <<>>)
    /\ (pc = "solved" /\ status # "Optimal") => ~ ENABLED PrintResults

\* a run stopped on an infeasible model
C7_Witness == pc = "stopped" /\ status = "Infeasible" /\ printed = <<>>

----------------------------------------------------------------------------
(* C8 *)

\* the number of runs of non-zero cells of a row
RunCount(row) ==
    Cardinality({j \in OccupiedValues(row) : j = 0 \/ row[j - 1] = 0})

\* C8: a class row of the solved matrix with no run or with several runs is
\* surfaced: extraction does not end normally with a block list in which the
\* class has no block or several blocks, unless the row is reported (the only
\* report of the output is the check mark of the row).
C8_AnomalySurfaced ==
    pc = "printed" =>
        \A c \in AllClasses :
            RunCount(X[c[1]][c[2] - 1]) # 1
            => (Len(BlocksOf(c)) = 1 \/ ~ printed[c[1]].check_slot_count[c[2] - 1])

----------------------------------------------------------------------------
(* C9 *)

\* the slot count is not divisible by the number of class days, or a class
\* is longer than a day
InconsistentConfiguration ==
    \/ nslots % NUMBER_OF_CLASS_DAYS # 0
    \/ \E p \in DOMAIN csv_classes : csv_classes[p].slot_count > get_slot_count_per_day

\* C9: an inconsistent configuration makes the construction of the model
\* fail before the solve; no model is handed to the solver.
C9_FailFast ==
    InconsistentConfiguration => pc \notin {"built", "solved", "stopped", "printed"}

----------------------------------------------------------------------------
(* C10 *)

\* slot j is the first slot of one of the class days
IsFirstHour(j) == \E d \in 0..(NUMBER_OF_CLASS_DAYS - 1) : j = d * get_slot_count_per_day

\* the slots j1 and j2 carry the same slot penalties
SameFlags(j1, j2) ==
    /\ IsFirstHour(j1) = IsFirstHour(j2)
    /\ is_lunch_break(j1) = is_lunch_break(j2)
    /\ is_evening(j1) = is_evening(j2)

\* the "not available" code of a teacher's slot preferences
NotAvailable == 1

\* the preference code of teacher u for slot j: None where slot_preferences
\* has no entry for the slot
SlotPreference(u, j) ==
    IF j \in DOMAIN preferences[u] THEN preferences[u][j] ELSE None

\* The assignments a and b are identical but for the run of class c, and the
\* two runs of c are alike slot by slot (same penalties, same preference
\* codes of the teachers of c), except that the run in a holds slot p, and
\* possibly further slots, where teacher t is not available, and the run in
\* b holds in their place slots where t is not "not available".
OtherwiseIdentical(a, b, c, t, p) ==
    LET A == Occupied(a.x[c[1]][c[2] - 1])
        B == Occupied(b.x[c[1]][c[2] - 1])
        k == ClassAt(c).slot_count
    IN /\ p \in A
       /\ p \notin B
       /\ \A d \in AllClasses : d # c => a.x[d[1]][d[2] - 1] = b.x[d[1]][d[2] - 1]
       /\ \A o \in 0..(k - 1) :
             LET ja == First(A) + o
                 jb == First(B) + o
             IN /\ SameFlags(ja, jb)
                /\ \A u \in TeachersOf(ClassAt(c)) :
                      \/ (u # t \/ ja # p) /\ SlotPreference(u, ja) = SlotPreference(u, jb)
                      \/ /\ u = t
                         /\ SlotPreference(u, ja) = NotAvailable
                         /\ SlotPreference(u, jb) # NotAvailable

\* C10: teacher preferences are soft.  A class alone in the catalogue can be
\* placed in every window of its slot count, also in those holding a slot
\* where its teacher is "not available"; and of two assignments satisfying
\* all constraints that are otherwise identical, the one that has the class
\* in the slot where the teacher is not available has the larger objective
\* value.
C10_SoftPreferences ==
    pc = "built" =>
        \A c \in AllClasses : \A t \in TeachersOf(ClassAt(c)) :
            \A p \in {j \in Slots : SlotPreference(t, j) = NotAvailable} :
                /\ Cardinality(AllClasses) = 1 =>
                      \A w \in WindowStarts(ClassAt(c).slot_count) :
                          \E a \in FeasibleAssignments :
                              Occupied(a.x[c[1]][c[2] - 1]) = w..(w + ClassAt(c).slot_count - 1)
                /\ \A a, b \in FeasibleAssignments :
                      OtherwiseIdentical(a, b, c, t, p)
                      => objective_function(a.x) > objective_function(b.x)

\* a solved timetable of a class of several slots that avoids a slot where
\* the teacher is not available, although an otherwise identical assignment
\* holding that slot satisfies the constraints
C10_Witness ==
    /\ pc = "solved" /\ status = "Optimal"
    /\ \E c \in AllClasses : \E t \in TeachersOf(ClassAt(c)) : \E p \in Slots :
          /\ ClassAt(c).slot_count >= 2
          /\ SlotPreference(t, p) = NotAvailable
          /\ X[c[1]][c[2] - 1][p] = 0
          /\ \E a, b \in FeasibleAssignments :
                /\ OtherwiseIdentical(a, b, c, t, p)
                /\ \A j \in Slots : VarValue(b.x[c[1]][c[2] - 1][j]) = X[c[1]][c[2] - 1][j]

----------------------------------------------------------------------------
(* C11 *)

\* both bounds of a z variable hold for the window sum x
IndicatorBounds(z, x, k) ==
    /\ IndicatorUpperBound(z, x, k)
    /\ IndicatorLowerBound(z, x, k)

\* C11: the two bounds z <= x / k and z >= x - k + 1 make z an exact
\* indicator: for every class of the built model, every window sum x in
\* 0..k and every z in {0, 1}, both bounds hold if and only if z = 1 exactly
\* when x = k; and so it is for the windows of every 0/1 row.
C11_ExactIndicator ==
    pc = "built" =>
        \A c \in AllClasses :
            LET k == ClassAt(c).slot_count
            IN /\ \A x \in 0..k : \A z \in create_binary_variable :
                      IndicatorBounds(z, x, k) <=> ((z = 1) <=> (x = k))
               /\ \A row \in [Slots -> create_binary_variable] :
                      \A j \in WindowStarts(k) : \A z \in create_binary_variable :
                          IndicatorBounds(z, WindowSum(row, j, k), k)
                          <=> ((z = 1) <=> (\A q \in j..(j + k - 1) : row[q] = 1))

\* a built model with a class of several slots: a partly allocated window
\* forces z = 0 and the fully allocated window forces z = 1
C11_Witness ==
    /\ pc = "built"
    /\ \E c \in AllClasses :
          LET k == ClassAt(c).slot_count
          IN /\ k >= 2
             /\ WindowStarts(k) # {}
             /\ \E x \in 1..(k - 1) : IndicatorBounds(0, x, k) /\ ~ IndicatorBounds(1, x, k)
             /\ IndicatorBounds(1, k, k) /\ ~ IndicatorBounds(0, k, k)

----------------------------------------------------------------------------
(* C12 *)

\* the sum of slot_count over the classes of a semester
TotalSlotCount(semester) ==
    SumOver([i \in Rows(semester) |-> semester.classes[i + 1].slot_count], Rows(semester))

\* the unallocated-slot terms of all semesters
UnallocatedTerms(xs) ==
    SumOver([s \in DOMAIN semesters |->
                get_objective_function_unallocated_class_slots(xs[s], semesters[s])],
            DOMAIN semesters)

\* of every feasible assignment: the objective value and the objective value
\* without the unallocated-slot terms
ObjectiveValues ==
    {<<objective_function(a.x), objective_function(a.x) - UnallocatedTerms(a.x)>> :
        a \in FeasibleAssignments}

\* C12: in every feasible assignment the unallocated-slot term of a semester
\* is minus the sum of slot_count over the semester's classes (in the units
\* of the objective, ObjectiveScale for one slot), and any two feasible
\* assignments are ranked by the objective as they are ranked without the
\* term.
C12_UnallocatedTermConstant ==
    pc = "built" =>
        /\ \A a \in FeasibleAssignments : \A s \in DOMAIN semesters :
              get_objective_function_unallocated_class_slots(a.x[s], semesters[s])
              = - ObjectiveScale * TotalSlotCount(semesters[s])
        /\ \A v, w \in ObjectiveValues : (v[1] <= w[1]) <=> (v[2] <= w[2])

\* a solved timetable chosen among feasible assignments of different
\* objective values, the term being minus the slots of the classes
C12_Witness ==
    /\ pc = "solved" /\ status = "Optimal"
    /\ \E v, w \in ObjectiveValues : v[1] < w[1] /\ v[2] < w[2]
    /\ \E s \in DOMAIN semesters :
          /\ TotalSlotCount(semesters[s]) >= 2
          /\ get_objective_function_unallocated_class_slots(
                 [i \in Rows(semesters[s]) |-> [j \in Slots |-> IF X[s][i][j] = One THEN 1 ELSE 0]],
                 semesters[s])
             = - ObjectiveScale * TotalSlotCount(semesters[s])

----------------------------------------------------------------------------
(* C13 *)

\* slot j lies in a block that get_class_schedules emitted for class c
CoveredByBlock(c, j) ==
    \E q \in DOMAIN BlocksOf(c) :
        BlocksOf(c)[q].start_slot <= j /\ j <= BlocksOf(c)[q].end_slot

\* the value is within the tolerance of math.isclose of 1
CloseToOne(varValue) == isclose(varValue, One)

\* C13: the extractor treats a cell as occupied if and only if its solved
\* value is within a small tolerance of 1: the blocks emitted for a class
\* cover exactly the slots whose value is close to 1, so a value that is
\* neither close to 0 nor close to 1, or a tiny non-zero value, is free.
C13_OccupiedIffCloseToOne ==
    pc = "printed" =>
        \A c \in AllClasses : \A j \in Slots :
            CoveredByBlock(c, j) <=> CloseToOne(X[c[1]][c[2] - 1][j])

----------------------------------------------------------------------------
(* C14 *)

\* the ids of the classes of Classes.csv that belong to the semester
InputIds(semester) ==
    {p \in DOMAIN csv_classes : csv_classes[p].semester = semester.name}

\* the places (group, position) of the class of the given id in the groups
PlacesInGroups(semester, id) ==
    {gq \in (DOMAIN semester.groups) \X (1..MaxClasses) :
        /\ gq[2] <= Len(semester.groups[gq[1]].classes)
        /\ semester.groups[gq[1]].classes[gq[2]].id = id}

\* the positions of the class of the given id in semester.classes
PlacesInClasses(semester, id) ==
    {q \in DOMAIN semester.classes : semester.classes[q].id = id}

\* the rows that the group-exclusivity constraint sums for the common group
\* and for every non-common group are the rows of the group's classes
OffsetsAddressGroups(semester) ==
    /\ \A j \in 0..(Len(common_group(semester).classes) - 1) :
          semester.classes[j + 1] = common_group(semester).classes[j + 1]
    /\ \A p \in DOMAIN non_common_groups(semester) :
          \A j \in 0..(Len(non_common_groups(semester)[p].classes) - 1) :
              /\ GroupOffset(semester, p) + j + 1 \in DOMAIN semester.classes
              /\ semester.classes[GroupOffset(semester, p) + j + 1]
                 = non_common_groups(semester)[p].classes[j + 1]

\* C14: after init_groups and sort_classes every class of the input is in
\* exactly one group and appears exactly once in semester.classes, which
\* holds nothing else; groups[0] is the common group (name "") even when it
\* has no class; and the rows offset_p .. offset_p + len(group.classes) - 1
\* are the rows of the classes of the group at position p, offset_p being
\* the class count of the groups before it.
C14_GroupsPartitionRows ==
    pc # "start" /\ pc # "load_error" =>
        \A s \in DOMAIN semesters :
            LET semester == semesters[s]
            IN /\ \A id \in InputIds(semester) :
                      /\ Cardinality(PlacesInGroups(semester, id)) = 1
                      /\ Cardinality(PlacesInClasses(semester, id)) = 1
               /\ Len(semester.classes) = Cardinality(InputIds(semester))
               /\ Len(semester.groups) >= 1
               /\ common_group(semester).name = 0
               /\ \A id \in InputIds(semester) : \A gq \in PlacesInGroups(semester, id) :
                      semester.groups[gq[1]].name = csv_classes[id].group_name
               /\ OffsetsAddressGroups(semester)

\* a loaded catalogue with a semester whose common group has no class and
\* whose two other groups appear in the file against the order of their names
C14_Witness ==
    /\ pc = "loaded"
    /\ \E s \in DOMAIN semesters :
          /\ common_group(semesters[s]).classes = <<>>
          /\ Len(non_common_groups(semesters[s])) = 2
          /\ GroupOffset(semesters[s], 2) = 2
          /\ csv_classes[1].semester = semesters[s].name
          /\ csv_classes[1].group_name = 2
          /\ OffsetsAddressGroups(semesters[s])

----------------------------------------------------------------------------
(* C15 *)

\* the starts of the legal placements of a class of slot count k: the run
\* lies in the calendar and s mod slots_per_day <= slots_per_day - k
LegalStarts(k) ==
    {s \in 0..(nslots - k) : s % get_slot_count_per_day <= get_slot_count_per_day - k}

\* the row that occupies exactly the slots s .. s + k - 1
PlacementRow(s, k) == [j \in Slots |-> IF s <= j /\ j <= s + k - 1 THEN 1 ELSE 0]

\* the row satisfies the slot-count constraint and, with some values of the
\* z variables, both bounds of every z and the constraint Z == 1
Admitted(row, k) ==
    /\ match_class_slot_count(row, k)
    /\ \E zrow \in [WindowStarts(k) -> create_binary_variable] : consecutive_slots(row, zrow, k)

\* C15: the contiguity encoding excludes no legal placement: for every class
\* of the built model with 1 <= slot_count <= slots_per_day and every legal
\* start s, the row occupying exactly s .. s + slot_count - 1 satisfies the
\* slot-count constraint and admits values of the z variables satisfying
\* both indicator bounds and the sum-of-z = 1 constraint.
C15_NoLegalPlacementExcluded ==
    pc = "built" =>
        \A c \in AllClasses :
            LET k == ClassAt(c).slot_count
            IN (1 <= k /\ k <= get_slot_count_per_day)
               => \A s \in LegalStarts(k) : Admitted(PlacementRow(s, k), k)

\* a built model with a class of several slots, shorter than a day, whose
\* latest legal placement in the second day is admitted
C15_Witness ==
    /\ pc = "built"
    /\ \E c \in AllClasses :
          LET k == ClassAt(c).slot_count
          IN /\ 2 <= k /\ k < get_slot_count_per_day
             /\ \E s \in LegalStarts(k) :
                   /\ s >= get_slot_count_per_day
                   /\ s % get_slot_count_per_day = get_slot_count_per_day - k
                   /\ Admitted(PlacementRow(s, k), k)

====
